---------------------------- MODULE Spec2Model ----------------------------
(* Model of scripts/transcribe.py: the transcription orchestrator, the      *)
(* backend normalizers, the sentence splitter, the short-sentence merger    *)
(* and the segment builder.                                                 *)
(*                                                                          *)
(* Text is a sequence of characters (one-element strings).  The CJK         *)
(* characters are written as the atoms "ZH" (an ideograph), "ZH." (the      *)
(* ideographic full stop), "ZH!" and "ZH?" (the full-width marks).          *)
(*                                                                          *)
(* A timestamp is a tagged value [k, n, d]: k = "num" is the finite number  *)
(* n/d (d >= 1, in lowest terms); "nan", "inf" and "-inf" are the floats of *)
(* that name; "none" is a value that is no number (None, a string);         *)
(* "missing" says the key or attribute is absent from the record.           *)
(* Arithmetic is exact: float rounding is not modelled.                     *)
EXTENDS Integers, Sequences, FiniteSets, TLC

VARIABLES
    pc,              \* position of the running call
    file_exists,     \* os.path.exists(file_path)
    engine,          \* the engine selector
    model_loaded,    \* a backend model object has been constructed
    backend_calls,   \* number of model.transcribe calls made
    raw,             \* what the backend returned
    segs_in,         \* argument of process_segments_with_sentence_split
    all_words,       \* the canonical word sequence
    sentences,       \* the list object split_on_punctuation returned
    handed,          \* value of that list when merge_short_sentences was called
    min_words,       \* merge threshold
    max_gap,         \* merge threshold
    merged,          \* merge_short_sentences: local merged
    i,               \* merge_short_sentences: local i
    branch,          \* branch the last loop iteration took
    merged_groups,   \* value merge_short_sentences returned
    regrouped,       \* groups of a second split + merge over merged_groups
    segments,        \* value words_to_segments returned
    result,          \* the dict the call returned
    error            \* the exception the call raised, "" when none

vars == << pc, file_exists, engine, model_loaded, backend_calls, raw, segs_in,
           all_words, sentences, handed, min_words, max_gap, merged, i, branch,
           merged_groups, regrouped, segments, result, error >>

-----------------------------------------------------------------------------
(* Characters and text *)

Whitespace == {" "}

\* [.?!。！？] of SENTENCE_END_PATTERN and STRONG_PUNCT_PATTERN
StrongChars == {".", "?", "!", "ZH.", "ZH!", "ZH?"}

\* [?!？！] : the optional second character of STRONG_PUNCT_PATTERN
SecondChars == {"?", "!", "ZH?", "ZH!"}

\* [.,!?;:。，！？；：] of the clean-up substitution in words_to_segments
CleanupChars == {".", ",", "!", "?", ";", ":", "ZH.", "ZH,", "ZH!", "ZH?", "ZH;", "ZH:"}

\* ord(c) < 128
IsAscii(c) == c \notin {"ZH", "ZH.", "ZH,", "ZH!", "ZH?", "ZH;", "ZH:"}

RECURSIVE LStrip(_)
LStrip(t) ==
    IF t # <<>> /\ Head(t) \in Whitespace THEN LStrip(Tail(t)) ELSE t

RECURSIVE RStrip(_)
RStrip(t) ==
    IF t # <<>> /\ t[Len(t)] \in Whitespace
    THEN RStrip(SubSeq(t, 1, Len(t) - 1))
    ELSE t

\* str.strip()
Strip(t) == RStrip(LStrip(t))

\* str.split() followed by len(): the number of maximal runs of non-space
NumTokens(t) ==
    Cardinality({ k \in 1..Len(t) :
        /\ t[k] \notin Whitespace
        /\ (k = 1 \/ t[k - 1] \in Whitespace) })

\* is_sentence_end that knows the Latin marks only
is_sentence_end_ascii_only(text) ==
    LET s == Strip(text)
    IN  s # <<>> /\ s[Len(s)] \in {".", "?", "!"}

is_sentence_end(text) ==
    LET s == Strip(text)
    IN  s # <<>> /\ s[Len(s)] \in StrongChars

count_words(text0) ==
    LET text == Strip(text0)
        ascii_chars == Cardinality({ k \in 1..Len(text) : IsAscii(text[k]) })
    IN  IF text = <<>> THEN 0
        ELSE IF 2 * ascii_chars > Len(text)
             THEN NumTokens(text)
             ELSE Cardinality({ k \in 1..Len(text) : text[k] \notin Whitespace })

\* STRONG_PUNCT_PATTERN.split(text): the pattern has one capture group, so
\* the parts alternate text, punctuation, text, ..., text (empty parts kept)
RECURSIVE PunctSplitFrom(_, _, _, _)
PunctSplitFrom(t, k, cur, acc) ==
    IF k > Len(t) THEN Append(acc, cur)
    ELSE IF t[k] \in StrongChars
         THEN IF k + 1 <= Len(t) /\ t[k + 1] \in SecondChars
              THEN PunctSplitFrom(t, k + 2, <<>>, acc \o << cur, << t[k], t[k + 1] >> >>)
              ELSE PunctSplitFrom(t, k + 1, <<>>, acc \o << cur, << t[k] >> >>)
         ELSE PunctSplitFrom(t, k + 1, Append(cur, t[k]), acc)

StrongPunctSplit(t) == PunctSplitFrom(t, 1, <<>>, <<>>)

\* STRONG_PUNCT_PATTERN.match(part): the pattern matches at the start
StrongPunctMatch(part) == part # <<>> /\ part[1] \in StrongChars

\* re.sub(r'\s+([.,!?;:...])', r'\1', text): a run of whitespace directly
\* in front of a punctuation character is removed
RECURSIVE SkipSpaces(_, _)
SkipSpaces(t, k) ==
    IF k <= Len(t) /\ t[k] \in Whitespace THEN SkipSpaces(t, k + 1) ELSE k

RECURSIVE CollapseFrom(_, _)
CollapseFrom(t, k) ==
    IF k > Len(t) THEN <<>>
    ELSE IF t[k] \in Whitespace
         THEN LET e == SkipSpaces(t, k)
              IN  IF e <= Len(t) /\ t[e] \in CleanupChars
                  THEN CollapseFrom(t, e)
                  ELSE SubSeq(t, k, e - 1) \o CollapseFrom(t, e)
         ELSE << t[k] >> \o CollapseFrom(t, k + 1)

CollapseSpaceBeforePunct(t) == CollapseFrom(t, 1)

\* ' '.join(parts)
RECURSIVE JoinSpace(_)
JoinSpace(parts) ==
    IF parts = <<>> THEN <<>>
    ELSE IF Len(parts) = 1 THEN parts[1]
    ELSE parts[1] \o << " " >> \o JoinSpace(Tail(parts))

-----------------------------------------------------------------------------
(* Timestamps *)

Num(n) == [k |-> "num", n |-> n, d |-> 1]
NaN == [k |-> "nan", n |-> 0, d |-> 1]
PosInf == [k |-> "inf", n |-> 0, d |-> 1]
NegInf == [k |-> "-inf", n |-> 0, d |-> 1]
NotANumber == [k |-> "none", n |-> 0, d |-> 1]
Missing == [k |-> "missing", n |-> 0, d |-> 1]
\* the result of an arithmetic operation that raised TypeError
Raised == [k |-> "TypeError", n |-> 0, d |-> 1]

Abs(x) == IF x < 0 THEN -x ELSE x

RECURSIVE Gcd(_, _)
Gcd(a, b) == IF b = 0 THEN a ELSE Gcd(b, a % b)

\* the finite number n/d, in lowest terms
Frac(n, d) ==
    LET g == Gcd(Abs(n), d)
    IN  [k |-> "num", n |-> n \div g, d |-> d \div g]

IsFloat(x) == x.k \in {"num", "nan", "inf", "-inf"}

Neg(x) ==
    CASE x.k = "num" -> Frac(-x.n, x.d)
      [] x.k = "inf" -> NegInf
      [] x.k = "-inf" -> PosInf
      [] OTHER -> x

\* a + b on Python numbers; TypeError when an operand is no number
Add(a, b) ==
    IF ~IsFloat(a) \/ ~IsFloat(b) THEN Raised
    ELSE IF a.k = "nan" \/ b.k = "nan" THEN NaN
    ELSE IF a.k = "num" /\ b.k = "num" THEN Frac(a.n * b.d + b.n * a.d, a.d * b.d)
    ELSE IF a.k = "num" THEN b
    ELSE IF b.k = "num" THEN a
    ELSE IF a.k = b.k THEN a
    ELSE NaN

\* a - b
Sub(a, b) == IF ~IsFloat(b) THEN Raised ELSE Add(a, Neg(b))

\* (p / q) * x for integers p >= 0 and q >= 1
Scale(p, q, x) ==
    IF ~IsFloat(x) THEN Raised
    ELSE IF x.k = "num" THEN Frac(p * x.n, q * x.d)
    ELSE IF p = 0 THEN NaN
    ELSE x

\* a <= b on floats (FALSE when either is NaN)
Leq(a, b) ==
    IF a.k = "nan" \/ b.k = "nan" THEN FALSE
    ELSE IF a.k = "-inf" \/ b.k = "inf" THEN TRUE
    ELSE IF a.k = "inf" \/ b.k = "-inf" THEN FALSE
    ELSE a.n * b.d <= b.n * a.d

\* dict.get(key, default)
Get(rec, key, default) == IF rec[key].k = "missing" THEN default ELSE rec[key]

-----------------------------------------------------------------------------
(* Sentence splitter *)

Word(text, start, end) == [word |-> text, start |-> start, end |-> end]

RECURSIVE SplitFrom(_, _, _, _)
SplitFrom(words, k, current_sentence, out) ==
    IF k > Len(words)
    THEN IF current_sentence # <<>> THEN Append(out, current_sentence) ELSE out
    ELSE LET word_text == Strip(words[k].word)
             cur == Append(current_sentence, words[k])
         IN  IF is_sentence_end(word_text)
             THEN SplitFrom(words, k + 1, <<>>, Append(out, cur))
             ELSE SplitFrom(words, k + 1, cur, out)

split_on_punctuation(words) ==
    IF words = <<>> THEN <<>> ELSE SplitFrom(words, 1, <<>>, <<>>)

-----------------------------------------------------------------------------
(* Short-sentence merger *)

RECURSIVE SumCounts(_)
SumCounts(group) ==
    IF group = <<>> THEN 0
    ELSE count_words(group[1].word) + SumCounts(Tail(group))

\* current[-1].get('end', 0) if current else 0
LastEnd(group) ==
    IF group # <<>> THEN Get(group[Len(group)], "end", Num(0)) ELSE Num(0)

\* next_sentence[0].get('start', 0) if next_sentence else 0
FirstStart(group) ==
    IF group # <<>> THEN Get(group[1], "start", Num(0)) ELSE Num(0)

\* MergeIter with the two merge tests in the other order: the merge into the
\* previously emitted group is tried first
MergeIter_backward_first(S, M, pos, minw, maxgap) ==
    LET current == S[pos + 1]
        current_word_count == SumCounts(current)
        try_next == current_word_count < minw /\ pos + 1 < Len(S)
        next_gap == Sub(FirstStart(S[pos + 2]), LastEnd(current))
        try_prev == M # <<>> /\ current_word_count < minw
        prev == M[Len(M)]
        prev_gap == Sub(FirstStart(current), LastEnd(prev))
    IN  IF try_prev /\ Leq(prev_gap, maxgap)
        THEN [sentences |-> S,
              merged |-> [M EXCEPT ![Len(M)] = prev \o current],
              i |-> pos + 1, branch |-> "backward", error |-> ""]
        ELSE IF try_next /\ Leq(next_gap, maxgap)
        THEN [sentences |-> [S EXCEPT ![pos + 2] = current \o S[pos + 2]],
              merged |-> M, i |-> pos + 1, branch |-> "forward", error |-> ""]
        ELSE [sentences |-> S, merged |-> Append(M, current),
              i |-> pos + 1, branch |-> "emit", error |-> ""]

\* MergeIter with a forward merge that overwrites nothing: the current group
\* is skipped and its words are lost
MergeIter_drops_current(S, M, pos, minw, maxgap) ==
    LET current == S[pos + 1]
        current_word_count == SumCounts(current)
        try_next == current_word_count < minw /\ pos + 1 < Len(S)
        next_gap == Sub(FirstStart(S[pos + 2]), LastEnd(current))
        try_prev == M # <<>> /\ current_word_count < minw
        prev == M[Len(M)]
        prev_gap == Sub(FirstStart(current), LastEnd(prev))
    IN  IF try_next /\ Leq(next_gap, maxgap)
        THEN [sentences |-> S, merged |-> M, i |-> pos + 1,
              branch |-> "forward", error |-> ""]
        ELSE IF try_prev /\ Leq(prev_gap, maxgap)
        THEN [sentences |-> S,
              merged |-> [M EXCEPT ![Len(M)] = prev \o current],
              i |-> pos + 1, branch |-> "backward", error |-> ""]
        ELSE [sentences |-> S, merged |-> Append(M, current),
              i |-> pos + 1, branch |-> "emit", error |-> ""]

\* MergeIter without the merge into the previously emitted group
MergeIter_forward_only(S, M, pos, minw, maxgap) ==
    LET current == S[pos + 1]
        current_word_count == SumCounts(current)
        try_next == current_word_count < minw /\ pos + 1 < Len(S)
        next_gap == Sub(FirstStart(S[pos + 2]), LastEnd(current))
    IN  IF try_next /\ Leq(next_gap, maxgap)
        THEN [sentences |-> [S EXCEPT ![pos + 2] = current \o S[pos + 2]],
              merged |-> M, i |-> pos + 1, branch |-> "forward", error |-> ""]
        ELSE [sentences |-> S, merged |-> Append(M, current),
              i |-> pos + 1, branch |-> "emit", error |-> ""]

\* One iteration of the while loop, at 0-based position pos of list S with
\* emitted groups M.  The result holds the list, the emitted groups and the
\* position afterwards, the branch taken and the exception raised ("" if none).
MergeIter(S, M, pos, minw, maxgap) ==
    LET current == S[pos + 1]
        current_word_count == SumCounts(current)
        try_next == current_word_count < minw /\ pos + 1 < Len(S)
        next_gap == Sub(FirstStart(S[pos + 2]), LastEnd(current))
        try_prev == M # <<>> /\ current_word_count < minw
        prev == M[Len(M)]
        prev_gap == Sub(FirstStart(current), LastEnd(prev))
        raise == [sentences |-> S, merged |-> M, i |-> pos,
                  branch |-> "raise", error |-> "TypeError"]
    IN  IF try_next /\ next_gap = Raised THEN raise
        ELSE IF try_next /\ Leq(next_gap, maxgap)
        THEN [sentences |-> [S EXCEPT ![pos + 2] = current \o S[pos + 2]],
              merged |-> M, i |-> pos + 1, branch |-> "forward", error |-> ""]
        ELSE IF try_prev /\ prev_gap = Raised THEN raise
        ELSE IF try_prev /\ Leq(prev_gap, maxgap)
        THEN [sentences |-> S,
              merged |-> [M EXCEPT ![Len(M)] = prev \o current],
              i |-> pos + 1, branch |-> "backward", error |-> ""]
        ELSE [sentences |-> S, merged |-> Append(M, current),
              i |-> pos + 1, branch |-> "emit", error |-> ""]

RECURSIVE MergeLoop(_, _, _, _, _)
MergeLoop(S, M, pos, minw, maxgap) ==
    IF pos >= Len(S) THEN [ret |-> M, sentences |-> S, error |-> ""]
    ELSE LET r == MergeIter(S, M, pos, minw, maxgap)
         IN  IF r.error # "" THEN [ret |-> <<>>, sentences |-> S, error |-> r.error]
             ELSE MergeLoop(r.sentences, r.merged, r.i, minw, maxgap)

\* The whole call: the value returned, the argument list as the call leaves
\* it, and the exception raised
merge_short_sentences(S, minw, maxgap) ==
    IF Len(S) <= 1 THEN [ret |-> S, sentences |-> S, error |-> ""]
    ELSE MergeLoop(S, <<>>, 0, minw, maxgap)

-----------------------------------------------------------------------------
(* Segment builder *)

\* SanitizeTimestamp without the infinity check
SanitizeTimestamp_nan_only(x) ==
    IF x.k \in {"num", "inf", "-inf"} THEN x ELSE Num(0)

\* float(x) inside try/except, then the NaN and infinity checks
SanitizeTimestamp(x) ==
    IF x.k = "num" THEN x ELSE Num(0)

SegmentText(words) ==
    Strip(CollapseSpaceBeforePunct(
        JoinSpace([k \in 1..Len(words) |-> Strip(words[k].word)])))

RECURSIVE words_to_segments(_)
words_to_segments(sentence_words) ==
    IF sentence_words = <<>> THEN <<>>
    ELSE LET words == sentence_words[1]
             rest == words_to_segments(Tail(sentence_words))
         IN  IF words = <<>> \/ SegmentText(words) = <<>> THEN rest
             ELSE << [start |-> SanitizeTimestamp(Get(words[1], "start", Num(0))),
                      end |-> SanitizeTimestamp(Get(words[Len(words)], "end", Num(0))),
                      text |-> SegmentText(words)] >> \o rest

RECURSIVE Flatten(_)
Flatten(groups) ==
    IF groups = <<>> THEN <<>> ELSE groups[1] \o Flatten(Tail(groups))

-----------------------------------------------------------------------------
(* Backend normalizers *)

\* A backend segment is [text, start, end, words]; words is the sequence of
\* its per-word records [word, start, end], empty when the backend gave none.

\* transcribe_openai_whisper, dictionary-style records: one segment's words
OpenAIWordsOfSeg(seg) ==
    IF seg.words # <<>>
    THEN [k \in 1..Len(seg.words) |->
            Word(Strip(seg.words[k].word),
                 Get(seg.words[k], "start", Get(seg, "start", Num(0))),
                 Get(seg.words[k], "end", Get(seg, "end", Num(0))))]
    ELSE << Word(Strip(seg.text), Get(seg, "start", Num(0)), Get(seg, "end", Num(0))) >>

RECURSIVE OpenAIWords(_)
OpenAIWords(segs) ==
    IF segs = <<>> THEN <<>>
    ELSE OpenAIWordsOfSeg(segs[1]) \o OpenAIWords(Tail(segs))

\* transcribe_faster_whisper, attribute-style records (seg.words, w.start):
\* a Segment or Word object always has its attributes, so no default applies
FasterWordsOfSeg(seg) ==
    IF seg.words # <<>>
    THEN [k \in 1..Len(seg.words) |->
            Word(Strip(seg.words[k].word), seg.words[k].start, seg.words[k].end)]
    ELSE << Word(Strip(seg.text), seg.start, seg.end) >>

RECURSIVE FasterWords(_)
FasterWords(segs) ==
    IF segs = <<>> THEN <<>>
    ELSE FasterWordsOfSeg(segs[1]) \o FasterWords(Tail(segs))

\* sum(len(p) for p in parts if p.strip())
RECURSIVE TotalLen(_)
TotalLen(parts) ==
    IF parts = <<>> THEN 0
    ELSE (IF Strip(parts[1]) # <<>> THEN Len(parts[1]) ELSE 0) + TotalLen(Tail(parts))

Max(a, b) == IF a >= b THEN a ELSE b

\* process_segments_with_sentence_split: the loop over the parts of one
\* segment without word timing, from part k on
RECURSIVE InterpolateFrom(_, _, _, _, _, _, _)
InterpolateFrom(seg, parts, k, current_text, current_time, duration, out) ==
    IF k > Len(parts)
    THEN IF Strip(current_text) # <<>>
         THEN Append(out, Word(Strip(current_text), current_time, Get(seg, "end", Num(0))))
         ELSE out
    ELSE LET part == parts[k]
         IN  IF part = <<>>
             THEN InterpolateFrom(seg, parts, k + 1, current_text, current_time, duration, out)
             ELSE IF StrongPunctMatch(part)
             THEN LET text == current_text \o part
                      part_duration == Scale(Len(text), Max(TotalLen(parts), 1), duration)
                  IN  IF Strip(text) # <<>>
                      THEN InterpolateFrom(seg, parts, k + 1, <<>>,
                               Add(current_time, part_duration), duration,
                               Append(out, Word(Strip(text), current_time,
                                                Add(current_time, part_duration))))
                      ELSE InterpolateFrom(seg, parts, k + 1, text, current_time, duration, out)
             ELSE InterpolateFrom(seg, parts, k + 1, part, current_time, duration, out)

\* the words one segment contributes, and the exception raised
SplitWordsOfSeg(seg) ==
    LET text == Strip(seg.text)
        parts == StrongPunctSplit(text)
        duration == Sub(Get(seg, "end", Num(0)), Get(seg, "start", Num(0)))
    IN  IF text = <<>> THEN [words |-> <<>>, error |-> ""]
        ELSE IF seg.words # <<>>
        THEN [words |-> [k \in 1..Len(seg.words) |->
                    Word(Strip(seg.words[k].word),
                         Get(seg.words[k], "start", Get(seg, "start", Num(0))),
                         Get(seg.words[k], "end", Get(seg, "end", Num(0))))],
              error |-> ""]
        ELSE IF Len(parts) <= 1
        THEN [words |-> << Word(text, Get(seg, "start", Num(0)), Get(seg, "end", Num(0))) >>,
              error |-> ""]
        ELSE IF duration = Raised
        THEN [words |-> <<>>, error |-> "TypeError"]
        ELSE [words |-> InterpolateFrom(seg, parts, 1, <<>>, Get(seg, "start", Num(0)),
                                        duration, <<>>),
              error |-> ""]

RECURSIVE SplitWords(_)
SplitWords(segs) ==
    IF segs = <<>> THEN [words |-> <<>>, error |-> ""]
    ELSE LET first == SplitWordsOfSeg(segs[1])
             rest == SplitWords(Tail(segs))
         IN  IF first.error # "" THEN first
             ELSE [words |-> first.words \o rest.words, error |-> rest.error]

-----------------------------------------------------------------------------
(* Inputs *)

\* bounds of the model
MaxSegs == 2
MaxSegWords == 1
MaxWords == 3
MaxSegsIn == 2

\* defaults of merge_short_sentences, passed by every caller in the file
MIN_WORDS == 3
MAX_GAP == 1

Engines == {"faster-whisper", "openai-whisper", "whisperx"}

\* texts of backend word records (Whisper words carry a leading space)
RawWordTexts == { << " ", "a", "." >>, << " " >> }

\* texts of backend segments that come without word records
RawSegTexts == { << " ", "a", " ", "b", " ", "c", "." >>, <<>> }

RECURSIVE Concat(_)
Concat(texts) == IF texts = <<>> THEN <<>> ELSE texts[1] \o Concat(Tail(texts))

\* what a segment looks like before it is placed in time: the segment text
\* and the texts of its word records
SegShapes ==
    { [text |-> t, wtexts |-> <<>>] : t \in RawSegTexts }
    \cup { [text |-> Concat(ws), wtexts |-> ws] :
             ws \in UNION { [1..m -> RawWordTexts] : m \in 1..MaxSegWords } }

\* segment s of a result covers [(s-1)*MaxSegWords, s*MaxSegWords] and its
\* word j the j-th unit of that span
TimedSeg(shape, s) ==
    LET base == (s - 1) * MaxSegWords
    IN  [text |-> shape.text,
         start |-> Num(base),
         end |-> Num(base + MaxSegWords),
         words |-> [j \in 1..Len(shape.wtexts) |->
                      [word |-> shape.wtexts[j],
                       start |-> Num(base + j - 1),
                       end |-> Num(base + j)]]]

\* the timestamp values a backend can hand over in place of a finite number
AnomalyKinds(eng) ==
    {NaN, PosInf, NegInf, NotANumber}
    \cup (IF eng = "openai-whisper" THEN {Missing} ELSE {})

\* one anomaly: field f of word j of segment s is value v, or (j = 0) field
\* f of a segment s that has no word records, the only segments whose own
\* times are read when every word record is complete; s = 0 stands for a
\* result without anomaly
NoAnomaly == [s |-> 0, j |-> 0, f |-> "start", v |-> Num(0)]

Anomalies(segs, eng) ==
    { a \in [s : 1..Len(segs), j : 0..MaxSegWords, f : {"start", "end"},
             v : AnomalyKinds(eng)] :
        IF segs[a.s].words = <<>> THEN a.j = 0
        ELSE a.j \in 1..Len(segs[a.s].words) }
    \cup {NoAnomaly}

Inject(segs, a) ==
    IF a.s = 0 THEN segs
    ELSE IF a.j = 0 THEN [segs EXCEPT ![a.s][a.f] = a.v]
    ELSE [segs EXCEPT ![a.s].words[a.j][a.f] = a.v]

\* Whisper reports as text the texts of its segments, concatenated
BackendResult(segs) ==
    [text |-> Concat([s \in 1..Len(segs) |-> segs[s].text]),
     segments |-> segs,
     language |-> IF segs = <<>> THEN "missing" ELSE "zh"]

NoResult == [text |-> <<>>, segments |-> <<>>, language |-> "missing"]
NoReturn == [text |-> <<>>, segments |-> <<>>, language |-> ""]

-----------------------------------------------------------------------------
(* transcribe and the functions it runs *)

Idle ==
    /\ model_loaded = FALSE /\ backend_calls = 0 /\ raw = NoResult
    /\ sentences = <<>> /\ handed = <<>>
    /\ merged = <<>> /\ i = 0 /\ branch = "none" /\ merged_groups = <<>>
    /\ regrouped = <<>> /\ segments = <<>> /\ result = NoReturn /\ error = ""

Init ==
    /\ pc = "start"
    /\ file_exists \in BOOLEAN
    /\ engine \in Engines
    /\ min_words = MIN_WORDS
    /\ max_gap = Num(MAX_GAP)
    /\ segs_in = <<>>
    /\ all_words = <<>>
    /\ Idle

Raise(e) == pc' = "raised" /\ error' = e

\* CheckFile without the test: the call goes on to the engine selector
CheckFile_no_guard ==
    /\ pc = "start"
    /\ pc' = "dispatch"
    /\ UNCHANGED << file_exists, engine, model_loaded, backend_calls, raw, segs_in,
                    all_words, sentences, handed, min_words, max_gap, merged, i,
                    branch, merged_groups, regrouped, segments, result, error >>

\* transcribe: os.path.exists
CheckFile ==
    /\ pc = "start"
    /\ IF file_exists
       THEN pc' = "dispatch" /\ error' = error
       ELSE Raise("FileNotFoundError")
    /\ UNCHANGED << file_exists, engine, model_loaded, backend_calls, raw, segs_in,
                    all_words, sentences, handed, min_words, max_gap, merged, i,
                    branch, merged_groups, regrouped, segments, result >>

\* transcribe: the engine selector
Dispatch ==
    /\ pc = "dispatch"
    /\ IF engine \in {"faster-whisper", "openai-whisper"}
       THEN pc' = "load" /\ error' = error
       ELSE Raise("ValueError")
    /\ UNCHANGED << file_exists, engine, model_loaded, backend_calls, raw, segs_in,
                    all_words, sentences, handed, min_words, max_gap, merged, i,
                    branch, merged_groups, regrouped, segments, result >>

\* whisper.load_model / WhisperModel(...)
LoadModel ==
    /\ pc = "load"
    /\ model_loaded' = TRUE
    /\ pc' = "recognize"
    /\ UNCHANGED << file_exists, engine, backend_calls, raw, segs_in,
                    all_words, sentences, handed, min_words, max_gap, merged, i,
                    branch, merged_groups, regrouped, segments, result, error >>

\* model.transcribe returns
BackendTranscribe ==
    /\ pc = "recognize"
    /\ backend_calls' = backend_calls + 1
    /\ \E n \in 0..MaxSegs :
         \E shapes \in [1..n -> SegShapes] :
            LET segs == [s \in 1..n |-> TimedSeg(shapes[s], s)]
            IN  \E a \in Anomalies(segs, engine) :
                    raw' = BackendResult(Inject(segs, a))
    /\ pc' = "collect"
    /\ UNCHANGED << file_exists, engine, model_loaded, segs_in,
                    all_words, sentences, handed, min_words, max_gap, merged, i,
                    branch, merged_groups, regrouped, segments, result, error >>

\* model.transcribe raises: the exception propagates
BackendRaises ==
    /\ pc = "recognize"
    /\ backend_calls' = backend_calls + 1
    /\ Raise("BackendError")
    /\ UNCHANGED << file_exists, engine, model_loaded, raw, segs_in,
                    all_words, sentences, handed, min_words, max_gap, merged, i,
                    branch, merged_groups, regrouped, segments, result >>

\* the loop that collects all_words
CollectWords ==
    /\ pc = "collect"
    /\ all_words' = IF engine = "openai-whisper"
                    THEN OpenAIWords(raw.segments)
                    ELSE FasterWords(raw.segments)
    /\ pc' = "split"
    /\ UNCHANGED << file_exists, engine, model_loaded, backend_calls, raw, segs_in,
                    sentences, handed, min_words, max_gap, merged, i,
                    branch, merged_groups, regrouped, segments, result, error >>

\* sentence_groups = split_on_punctuation(all_words)
Split ==
    /\ pc = "split"
    /\ sentences' = split_on_punctuation(all_words)
    /\ pc' = "merge"
    /\ UNCHANGED << file_exists, engine, model_loaded, backend_calls, raw, segs_in,
                    all_words, handed, min_words, max_gap, merged, i,
                    branch, merged_groups, regrouped, segments, result, error >>

\* merge_short_sentences is entered: the early return, or merged = [], i = 0
MergeCall ==
    /\ pc = "merge"
    /\ handed' = sentences
    /\ IF Len(sentences) <= 1
       THEN /\ merged_groups' = sentences
            /\ pc' = "merged"
            /\ UNCHANGED << merged, i >>
       ELSE /\ merged' = <<>>
            /\ i' = 0
            /\ pc' = "merge_loop"
            /\ UNCHANGED merged_groups
    /\ UNCHANGED << file_exists, engine, model_loaded, backend_calls, raw, segs_in,
                    all_words, sentences, min_words, max_gap,
                    branch, regrouped, segments, result, error >>

\* one iteration of the while loop
MergeStep ==
    /\ pc = "merge_loop"
    /\ i < Len(sentences)
    /\ LET r == MergeIter(sentences, merged, i, min_words, max_gap)
       IN  /\ sentences' = r.sentences
           /\ merged' = r.merged
           /\ i' = r.i
           /\ branch' = r.branch
           /\ error' = r.error
           /\ pc' = IF r.error # "" THEN "raised" ELSE "merge_loop"
    /\ UNCHANGED << file_exists, engine, model_loaded, backend_calls, raw, segs_in,
                    all_words, handed, min_words, max_gap,
                    merged_groups, regrouped, segments, result >>

\* the loop ends: return merged
MergeReturn ==
    /\ pc = "merge_loop"
    /\ i >= Len(sentences)
    /\ merged_groups' = merged
    /\ pc' = "merged"
    /\ UNCHANGED << file_exists, engine, model_loaded, backend_calls, raw, segs_in,
                    all_words, sentences, handed, min_words, max_gap, merged, i,
                    branch, regrouped, segments, result, error >>

\* segments = words_to_segments(merged_groups)
Build ==
    /\ pc = "merged"
    /\ segments' = words_to_segments(merged_groups)
    /\ pc' = "built"
    /\ UNCHANGED << file_exists, engine, model_loaded, backend_calls, raw, segs_in,
                    all_words, sentences, handed, min_words, max_gap, merged, i,
                    branch, merged_groups, regrouped, result, error >>

\* the text of the result: ' '.join over the segments (faster-whisper), or
\* the text the backend reported (openai-whisper)
ResultText ==
    IF engine = "faster-whisper"
    THEN JoinSpace([k \in 1..Len(segments) |-> segments[k].text])
    ELSE raw.text

\* the language of the result, 'en' when the backend reported none
ResultLanguage == IF raw.language = "missing" THEN "en" ELSE raw.language

\* return {'text': ..., 'segments': segments, 'language': ...}
Return ==
    /\ pc = "built"
    /\ result' = [text |-> ResultText, segments |-> segments, language |-> ResultLanguage]
    /\ pc' = "done"
    /\ UNCHANGED << file_exists, engine, model_loaded, backend_calls, raw, segs_in,
                    all_words, sentences, handed, min_words, max_gap, merged, i,
                    branch, merged_groups, regrouped, segments, error >>

Next ==
    \/ CheckFile
    \/ Dispatch
    \/ LoadModel
    \/ BackendTranscribe
    \/ BackendRaises
    \/ CollectWords
    \/ Split
    \/ MergeCall
    \/ MergeStep
    \/ MergeReturn
    \/ Build
    \/ Return

Spec == Init /\ [][Next]_vars

-----------------------------------------------------------------------------
(* The splitter and the merger on their own, for any thresholds *)

\* texts of canonical words: one word, one word closing a sentence, a
\* three-word sentence in one fragment, two CJK characters closed by the
\* ideographic full stop, a closing word with trailing whitespace
MergerTexts ==
    { << "a" >>, << "a", "." >>, << "a", " ", "b", " ", "c", "." >>,
      << "ZH", "ZH." >>, << "a", "!", " " >> }

\* silence in front of a word, in seconds
Gaps == {1, 2}

MinWordsChoices == {2, MIN_WORDS}
MaxGapChoices == {MAX_GAP, 2}

\* every word lasts one second and starts gap seconds after the one before
RECURSIVE TimedWords(_, _)
TimedWords(items, t) ==
    IF items = <<>> THEN <<>>
    ELSE << Word(items[1].text, Num(t + items[1].gap), Num(t + items[1].gap + 1)) >>
         \o TimedWords(Tail(items), t + items[1].gap + 1)

MergerInputs ==
    UNION { { TimedWords(items, 0) :
                items \in [1..n -> [text : MergerTexts, gap : Gaps]] } : n \in 0..MaxWords }

InitMerger ==
    /\ pc = "split"
    /\ file_exists = TRUE
    /\ engine = "none"
    /\ min_words \in MinWordsChoices
    /\ max_gap \in { Num(g) : g \in MaxGapChoices }
    /\ segs_in = <<>>
    /\ all_words \in MergerInputs
    /\ Idle

\* the words of the merged groups, split and merged a second time
Resegment ==
    /\ pc = "merged"
    /\ regrouped' = merge_short_sentences(
                        split_on_punctuation(Flatten(merged_groups)),
                        min_words, max_gap).ret
    /\ pc' = "resegmented"
    /\ UNCHANGED << file_exists, engine, model_loaded, backend_calls, raw, segs_in,
                    all_words, sentences, handed, min_words, max_gap, merged, i,
                    branch, merged_groups, segments, result, error >>

NextMerger ==
    \/ Split
    \/ MergeCall
    \/ MergeStep
    \/ MergeReturn
    \/ Resegment

SpecMerger == InitMerger /\ [][NextMerger]_vars

-----------------------------------------------------------------------------
(* process_segments_with_sentence_split *)

\* segment texts: two sentences, a sentence and a lone mark after a space,
\* a sentence and an open fragment, no strong punctuation, a double mark,
\* nothing
SegmentTexts ==
    { << "a", ".", " ", "b", "." >>, << "a", ".", " ", "." >>,
      << "a", ".", " ", "b" >>, << "a", " ", "b" >>,
      << "a", "?", "!", " ", "b", "." >>, <<>> }

\* start and end of a segment
SegmentTimes ==
    { << Num(0), Num(4) >>, << Num(1), Num(3) >>, << Num(0), NotANumber >> }

\* per-word records of a segment: none, or one word
SegmentWordLists ==
    { <<>>, << [word |-> << " " >>, start |-> Missing, end |-> Num(1)] >> }

SegmentInputs ==
    UNION { [1..n -> { [text |-> t, start |-> se[1], end |-> se[2], words |-> ws] :
                         t \in SegmentTexts, se \in SegmentTimes,
                         ws \in SegmentWordLists }] : n \in 0..MaxSegsIn }

InitSegments ==
    /\ pc = "segments"
    /\ file_exists = TRUE
    /\ engine = "none"
    /\ min_words = MIN_WORDS
    /\ max_gap = Num(MAX_GAP)
    /\ segs_in \in SegmentInputs
    /\ all_words = <<>>
    /\ Idle

\* the loop over the segments that collects all_words
CollectSplitWords ==
    /\ pc = "segments"
    /\ LET r == SplitWords(segs_in)
       IN  /\ all_words' = r.words
           /\ error' = r.error
           /\ pc' = IF r.error # "" THEN "raised" ELSE "split"
    /\ UNCHANGED << file_exists, engine, model_loaded, backend_calls, raw, segs_in,
                    sentences, handed, min_words, max_gap, merged, i,
                    branch, merged_groups, regrouped, segments, result >>

NextSegments ==
    \/ CollectSplitWords
    \/ Split
    \/ MergeCall
    \/ MergeStep
    \/ MergeReturn
    \/ Build

SpecSegments == InitSegments /\ [][NextSegments]_vars

-----------------------------------------------------------------------------
(* Properties *)

\* word count of a group, and the gap in seconds between two groups whose
\* timestamps are whole numbers
IsShort(group) == SumCounts(group) < min_words
GapSeconds(before, after) == after[1].start.n - before[Len(before)].end.n

\* C1: at every position of the pass, a short group that has a following
\* group no more than max_gap away is not emitted: its words go in front of
\* the following group's, also when the previously emitted group is close
\* enough to take them, and the emitted groups stay as they are; when the gap
\* is larger the list is left alone.  A two-group list with a short first
\* group comes back as one concatenated group exactly when the gap is at most
\* max_gap, and as the two groups otherwise.
C1_ForwardMerge ==
    [][ /\ (pc = "merge_loop" /\ i < Len(sentences)) =>
             LET current == sentences[i + 1]
                 forward == /\ IsShort(current)
                            /\ i + 1 < Len(sentences)
                            /\ GapSeconds(current, sentences[i + 2]) <= max_gap.n
             IN  IF forward
                 THEN /\ sentences' = [sentences EXCEPT ![i + 2] = current \o @]
                      /\ merged' = merged
                      /\ i' = i + 1
                 ELSE sentences' = sentences
        /\ (pc' = "merged" /\ Len(handed') = 2 /\ IsShort(handed'[1])) =>
             merged_groups' =
                 IF GapSeconds(handed'[1], handed'[2]) <= max_gap.n
                 THEN << handed'[1] \o handed'[2] >>
                 ELSE handed'
      ]_vars

\* C1 witness: a forward merge has just been taken although the previously
\* emitted group was within max_gap of the merged words
C1_Witness ==
    /\ pc = "merge_loop"
    /\ branch = "forward"
    /\ merged # <<>>
    /\ i < Len(sentences)
    /\ GapSeconds(merged[Len(merged)], sentences[i + 1]) <= max_gap.n

\* the trimmed text ends with a strong punctuation character
EndsSentence(text) ==
    \E k \in 1..Len(text) :
        /\ text[k] \in {".", "?", "!", "ZH.", "ZH!", "ZH?"}
        /\ \A m \in (k + 1)..Len(text) : text[m] = " "

\* positions in the word sequence at which a group of groups ends
RECURSIVE GroupEnds(_, _)
GroupEnds(groups, offset) ==
    IF groups = <<>> THEN {}
    ELSE {offset + Len(groups[1])} \cup GroupEnds(Tail(groups), offset + Len(groups[1]))

\* C2: the groups split_on_punctuation returns partition the words: no
\* group is empty, the groups in order make up the word sequence, and a word
\* ends its group exactly when its trimmed text ends with strong punctuation
\* or it is the last word.
C2_SplitPartitions ==
    pc = "merge" =>
        /\ \A g \in 1..Len(sentences) : sentences[g] # <<>>
        /\ Flatten(sentences) = all_words
        /\ GroupEnds(sentences, 0) =
             { k \in 1..Len(all_words) :
                 EndsSentence(all_words[k].word) \/ k = Len(all_words) }

\* C2 witness: three words split in two groups, the second one closed by the
\* CJK full stop and the last word left open
C2_Witness ==
    /\ pc = "merge"
    /\ Len(all_words) = 3
    /\ Len(sentences) = 2
    /\ all_words[2].word = << "ZH", "ZH." >>
    /\ ~EndsSentence(all_words[3].word)

\* C3: a missing, non-finite or non-numeric timestamp or an empty text in
\* the backend's output never makes the pipeline raise.
C3_AnomaliesNeverRaise ==
    pc = "raised" => error \in {"FileNotFoundError", "ValueError", "BackendError"}

\* the groups that give a segment: those whose rendered text is not empty
RECURSIVE Rendered(_)
Rendered(groups) ==
    IF groups = <<>> THEN <<>>
    ELSE (IF groups[1] # <<>> /\ SegmentText(groups[1]) # <<>>
          THEN << groups[1] >> ELSE <<>>) \o Rendered(Tail(groups))

\* the value is the finite number, or 0.0 when there is none
SanitizedFrom(out, in) ==
    /\ out.k = "num"
    /\ in.k = "num" => out = in
    /\ in.k \in {"nan", "inf", "-inf", "none", "missing"} => out = Num(0)

\* C4: every segment of words_to_segments has a finite start and end: the
\* first word's start and the last word's end of its group when that value
\* is a finite number, and 0.0 when it is NaN, infinite, absent or no number.
C4_SegmentTimesSanitized ==
    pc \in {"built", "done"} =>
        LET groups == Rendered(merged_groups)
        IN  /\ Len(segments) = Len(groups)
            /\ \A k \in 1..Len(segments) :
                 /\ SanitizedFrom(segments[k].start, groups[k][1].start)
                 /\ SanitizedFrom(segments[k].end, groups[k][Len(groups[k])].end)

\* C4 witness: a segment was built from a group whose first word starts at
\* an infinite time and one from a group whose last word's end is no number
C4_Witness ==
    /\ pc = "built"
    /\ segments # <<>>
    /\ \E k \in 1..Len(segments) :
         Rendered(merged_groups)[k][1].start.k \in {"inf", "-inf", "nan", "none"}

\* C5: when merge_short_sentences has returned, the list of groups it was
\* given holds the same groups as when it was called.
C5_InputUnchanged ==
    pc \in {"merged", "resegmented"} => sentences = handed

\* C6: every word handed to split_on_punctuation has a text that is not
\* empty after trimming.
C6_NoEmptyWord ==
    pc = "split" => \A k \in 1..Len(all_words) : Strip(all_words[k].word) # <<>>

\* C7: the text of the result is the texts of the returned segments put
\* together in order (with single spaces), for either engine.
C7_TextIsSegmentTexts ==
    pc = "done" =>
        result.text = JoinSpace([k \in 1..Len(result.segments) |-> result.segments[k].text])

\* a segment whose words are synthesized: no word records, finite times and
\* strong punctuation in its text
IsInterpolated(seg) ==
    /\ seg.words = <<>>
    /\ seg.start.k = "num" /\ seg.end.k = "num"
    /\ \E k \in 1..Len(seg.text) : seg.text[k] \in StrongChars

\* C8: the words synthesized from a segment tile its time span: the first
\* starts at the segment's start, each next one where the one before ended,
\* the last one ends at the segment's end and none ends after it.
C8_SynthesizedWordsTile ==
    (pc = "split" /\ Len(segs_in) = 1 /\ IsInterpolated(segs_in[1])) =>
        /\ all_words # <<>>
        /\ all_words[1].start = segs_in[1].start
        /\ \A k \in 1..(Len(all_words) - 1) : all_words[k + 1].start = all_words[k].end
        /\ all_words[Len(all_words)].end = segs_in[1].end
        /\ \A k \in 1..Len(all_words) : Leq(all_words[k].end, segs_in[1].end)

\* C9: when the file does not exist the call raises FileNotFoundError with
\* no model loaded and no backend call made, whatever the engine; an unknown
\* engine on an existing file raises ValueError with no model loaded and no
\* backend call made.
C9_PreconditionsBeforeBackend ==
    /\ ~file_exists =>
         /\ ~model_loaded /\ backend_calls = 0
         /\ pc \in {"start", "raised"}
         /\ pc = "raised" => error = "FileNotFoundError"
    /\ (file_exists /\ engine \notin {"faster-whisper", "openai-whisper"}) =>
         /\ ~model_loaded /\ backend_calls = 0
         /\ pc \in {"start", "dispatch", "raised"}
         /\ pc = "raised" => error = "ValueError"

\* C9 witness: the call has raised for a missing file although the engine
\* is a known one
C9_Witness ==
    /\ pc = "raised"
    /\ ~file_exists
    /\ engine = "openai-whisper"
    /\ error = "FileNotFoundError"

\* C10: splitting and merging the words of the merged groups again, with
\* the same thresholds, gives the same groups; the first pass has kept every
\* word, once and in order.
C10_ResegmentationIdempotent ==
    pc = "resegmented" =>
        /\ Flatten(merged_groups) = all_words
        /\ regrouped = merged_groups

\* C10 witness: a second pass was run over groups that came out of a merge
\* and are still more than one
C10_Witness ==
    /\ pc = "resegmented"
    /\ Len(handed) = 3
    /\ Len(merged_groups) = 2
    /\ regrouped = merged_groups

\* C11: when merge_short_sentences returns on two or more groups, no
\* further merge is possible: every returned group that is short is more
\* than max_gap away from the group after it and from the group before it,
\* where there is one; and merging the returned groups again returns them
\* unchanged.
C11_NoMergeLeft ==
    (pc \in {"merged", "resegmented"} /\ Len(handed) >= 2) =>
        /\ \A g \in 1..Len(merged_groups) :
             IsShort(merged_groups[g]) =>
                /\ g < Len(merged_groups) =>
                     GapSeconds(merged_groups[g], merged_groups[g + 1]) > max_gap.n
                /\ g > 1 =>
                     GapSeconds(merged_groups[g - 1], merged_groups[g]) > max_gap.n
        /\ merge_short_sentences(merged_groups, min_words, max_gap).ret = merged_groups

\* C11 witness: three groups were merged into two, and one of the two is
\* still short, out of reach of its neighbour
C11_Witness ==
    /\ pc = "merged"
    /\ Len(handed) = 3
    /\ Len(merged_groups) = 2
    /\ \E g \in 1..2 : IsShort(merged_groups[g]) /\ Len(merged_groups[g]) = 2

=============================================================================
